---- MODULE Spec2Model ----
(***************************************************************************)
(* Membership-aware cache and visibility engine of the communities app.    *)
(*                                                                         *)
(* One community (id CId) with its Membership rows, three posts (one per   *)
(* visibility), one post's upvotes relation, the persisted counter fields  *)
(* and the cache store.  Requests run as processes: a request's database   *)
(* and cache operations are separate steps, so requests interleave the way *)
(* request-parallel workers do.                                            *)
(*                                                                         *)
(* A cache slot is modelled as a set: {} is a miss (cache.get returns      *)
(* None) and {v} is a hit with value v.                                    *)
(***************************************************************************)
EXTENDS Integers, FiniteSets, Sequences, TLC

\* ---------------------------------------------------------------- bounds
NumUsers == 2
NumProcs == 2
MaxPk == 2
MaxCount == 3
MaxCalls == 2
MaxPkPost == 3
MaxComments == 3
MaxEventPk == 3

\* ------------------------------------------------------------- constants
Users == 1..NumUsers
Procs == 1..NumProcs
Anon == 0
Creator == 1
CId == 1
Communities == {CId}

ROLE_CHOICES == {"member", "moderator", "admin"}
STATUS_CHOICES == {"pending", "approved", "rejected"}
VISIBILITY_CHOICES == {"public", "members", "admin"}

\* names of communities: the community's own at creation, the name of another
\* community, and a name that no community has
OwnName == "own"
OtherName == "other"
FreeName == "free"
Names == {OwnName, OtherName, FreeName}

NoRow == [role |-> "none", status |-> "none", pk |-> 0]
Row(r, s, k) == [role |-> r, status |-> s, pk |-> k]

Max(a, b) == IF a >= b THEN a ELSE b

VARIABLES
    membership,         \* Membership rows of the community: user -> row or NoRow
    nextPk,             \* next auto-increment primary key of Membership
    isPrivate,          \* Community.is_private
    requiresApproval,   \* Community.requires_approval
    memberCountCache,   \* Community.member_count_cache (persisted)
    name,               \* Community.name (unique among the communities)
    upvotes,            \* Post.upvotes relation of the post
    upvoteCountCache,   \* Post.upvote_count_cache (persisted)
    cUM,                \* cache "user_memberships:{u}"
    cUAM,               \* cache "user_admin_memberships:{u}"
    cMS,                \* cache "membership_status:{c}:{u}"
    cPCP,               \* cache "post_creation_permission:{c}:{u}"
    cSlug,              \* cache "community:slug:{slug}" (a pickled Community)
    pc,                 \* position of each request process
    req,                \* locals of each request process
    resp,               \* last response of each request process
    pair,               \* client session toggling one upvote on and then off
    calls,              \* upvote calls each user has sent, outside the sessions of pair
    comments,           \* the Comment rows: id, post and parent
    commentCountCache,  \* Post.comment_count_cache of each post (persisted)
    cPUC,               \* cache "post:upvote_count:{id}" of the post with the upvotes
    cPCC,               \* cache "post:comment_count:{id}" of that post
    cPTC,               \* cache "post:top_comments:{id}" of that post
    cHU,                \* cache "post:has_upvoted:{id}:{u}" of that post
    participants,       \* primary keys of the EventParticipant rows of each user for the event
    nextEventPk         \* next auto-increment primary key of EventParticipant

vars == <<membership, nextPk, isPrivate, requiresApproval, memberCountCache, name,
          upvotes, upvoteCountCache, cUM, cUAM, cMS, cPCP, cSlug, pc, req, resp, pair, calls,
          comments, commentCountCache, cPUC, cPCC, cPTC, cHU, participants,
          nextEventPk>>

dbVars == <<membership, nextPk, isPrivate, requiresApproval, memberCountCache, name>>
postVars == <<upvotes, upvoteCountCache>>
cacheVars == <<cUM, cUAM, cMS, cPCP, cSlug>>
ghostVars == <<pair, calls>>
commentVars == <<comments, commentCountCache>>
postCacheVars == <<cPUC, cPCC, cPTC>>
engageVars == <<commentVars, postCacheVars, cHU>>
eventVars == <<participants, nextEventPk>>

\* --------------------------------------------------------------- queries
\* Membership.objects.filter(user=u, community=c, status='approved').exists()
IsApproved(m, u) == u \in Users /\ m[u].status = "approved"

\* Membership.objects.filter(community=c, status='approved').count()
ApprovedCount(m) == Cardinality({u \in Users : m[u].status = "approved"})

\* Membership.objects.filter(community=c, role='admin').count()
AdminCount(m) == Cardinality({u \in Users : m[u].role = "admin"})

\* rows with role=admin and status=approved
ApprovedAdminCount(m) ==
    Cardinality({u \in Users : m[u].role = "admin" /\ m[u].status = "approved"})

\* BaseCommunityPermission.is_community_admin
is_community_admin(m, u) ==
    /\ u \in Users
    /\ \/ u = Creator
       \/ (m[u].role \in {"admin", "moderator"} /\ m[u].status = "approved")

\* The Community instance a view works on: the fields that the services read.
CommunityInstance == [mcc |-> memberCountCache, appr |-> requiresApproval]

\* CommunityViewSet.get_object / Community.get_by_slug: the cached instance on
\* a hit, else the row of the database, which is then cached.
LoadedCommunity == IF cSlug = {} THEN CommunityInstance ELSE CHOOSE c \in cSlug : TRUE
SlugAfterLoad == IF cSlug = {} THEN {CommunityInstance} ELSE cSlug

\* ------------------------------------------------------- process records
NoReq == [op |-> "none", user |-> Anon, tgt |-> Anon, arg |-> "none",
          comm |-> [mcc |-> 0, appr |-> FALSE], row |-> NoRow,
          mlist |-> {}, alist |-> {}, ids |-> {}, n |-> 0,
          upd |-> [field |-> "none", name |-> "none", flag |-> FALSE, fault |-> FALSE],
          locked |-> [name |-> "none", priv |-> FALSE, appr |-> FALSE]]
\* A value under "membership_status:{c}:{u}", which is also the body of a
\* membership_status response: the flag that toggle_post_upvote caches
\* (kind "bool") or the dict of membership_status (kind "dict", None as "null").
NoData == [kind |-> "none", is_member |-> FALSE, status |-> "none", role |-> "none"]
Flag(b) == [kind |-> "bool", is_member |-> b, status |-> "none", role |-> "none"]
Shape(b, st, r) == [kind |-> "dict", is_member |-> b, status |-> st, role |-> r]

\* Python truth of a cached value: a flag by its value, a non-empty dict True
Truthy(v) == IF v.kind = "bool" THEN v.is_member ELSE v.kind = "dict"

NoResp == [op |-> "none", user |-> Anon, arg |-> "none", out |-> "none", posts |-> {},
           data |-> NoData, value |-> 0]

Reply(p, o, ps) ==
    [op |-> req[p].op, user |-> req[p].user, arg |-> req[p].arg, out |-> o, posts |-> ps,
     data |-> NoData, value |-> 0]

\* a request ends: the response is recorded and the process is idle again
Finish(p, o, ps) ==
    /\ pc' = [pc EXCEPT ![p] = "idle"]
    /\ resp' = [resp EXCEPT ![p] = Reply(p, o, ps)]
    /\ req' = [req EXCEPT ![p] = NoReq]

\* a request ends with a number
FinishValue(p, o, v) ==
    /\ pc' = [pc EXCEPT ![p] = "idle"]
    /\ resp' = [resp EXCEPT ![p] = [Reply(p, o, {}) EXCEPT !.value = v]]
    /\ req' = [req EXCEPT ![p] = NoReq]

\* a request ends with a response body
FinishData(p, o, d) ==
    /\ pc' = [pc EXCEPT ![p] = "idle"]
    /\ resp' = [resp EXCEPT ![p] = [Reply(p, o, {}) EXCEPT !.data = d]]
    /\ req' = [req EXCEPT ![p] = NoReq]

Goto(p, label) ==
    /\ pc' = [pc EXCEPT ![p] = label]
    /\ UNCHANGED resp

Begin(p, label, r) ==
    /\ pc[p] = "idle"
    /\ pc' = [pc EXCEPT ![p] = label]
    /\ req' = [req EXCEPT ![p] = r]
    /\ resp' = [resp EXCEPT ![p] = NoResp]

\* ------------------------------------------------------------------ Init
CreatorRow == Row("admin", "approved", 1)
NoPair == [stage |-> "none", user |-> Anon, rel |-> {}, cnt |-> 0,
           rows |-> [u \in Users |-> NoRow]]

\* The community with the Membership rows m and the next primary key k, its
\* counter as the signal left it, nothing cached and no request in flight.
InitFrom(m, k) ==
    /\ membership = m
    /\ nextPk = k
    /\ isPrivate \in BOOLEAN
    /\ requiresApproval \in BOOLEAN
    /\ memberCountCache = ApprovedCount(m)
    /\ name = OwnName
    /\ upvotes = {}
    /\ upvoteCountCache = 0
    /\ cUM = [u \in Users |-> {}]
    /\ cUAM = [u \in Users |-> {}]
    /\ cMS = [u \in Users |-> {}]
    /\ cPCP = [u \in Users |-> {}]
    /\ cSlug = {}
    /\ pc = [p \in Procs |-> "idle"]
    /\ req = [p \in Procs |-> NoReq]
    /\ resp = [p \in Procs |-> NoResp]
    /\ pair = NoPair
    /\ calls = [u \in Users |-> 0]
    /\ comments = {}
    /\ commentCountCache = [v \in VISIBILITY_CHOICES |-> 0]
    /\ cPUC = {}
    /\ cPCC = {}
    /\ cPTC = {}
    /\ cHU = [u \in Users |-> {}]
    /\ participants = [u \in Users |-> {}]
    /\ nextEventPk = 1

\* the community as CommunityCreateSerializer.create leaves it: the creator's
\* admin row is the only Membership row
Init == InitFrom([u \in Users |-> IF u = Creator THEN CreatorRow ELSE NoRow], 2)

\* Rows that joins, approvals and role changes give a user other than the
\* creator: the user's row, if any, has the user's join as primary key.
JoinedRows(u) == {NoRow} \cup {Row(r, s, u) : r \in ROLE_CHOICES, s \in STATUS_CHOICES}

\* the community after some membership requests were served
InitJoined ==
    \E m \in [Users -> UNION {JoinedRows(u) : u \in Users} \cup {CreatorRow}] :
        /\ m[Creator] = CreatorRow
        /\ \A u \in Users \ {Creator} : m[u] \in JoinedRows(u)
        /\ InitFrom(m, NumUsers + 1)

\* --------------------------------------------------------------- signals
\* signals.update_community_member_count, run after a Membership row of
\* user u was saved or deleted and the rows are m: the persisted counter is
\* recounted and the keys of (c, u) are deleted.
SignalMemberCount(m, u) ==
    /\ memberCountCache' = ApprovedCount(m)
    /\ cMS' = [cMS EXCEPT ![u] = {}]
    /\ cPCP' = [cPCP EXCEPT ![u] = {}]

\* ------------------------------------------------------- join_community
JoinBegin(p, u) ==
    /\ Begin(p, "join_exists", [NoReq EXCEPT !.op = "join", !.user = u,
                                             !.comm = LoadedCommunity])
    /\ cSlug' = SlugAfterLoad
    /\ UNCHANGED <<dbVars, postVars, cUM, cUAM, cMS, cPCP, engageVars, eventVars>>

join_start(p, u) == JoinBegin(p, u) /\ UNCHANGED ghostVars

join_exists(p) ==
    /\ pc[p] = "join_exists"
    /\ IF membership[req[p].user] # NoRow
          THEN Finish(p, "already_member", {})
          ELSE Goto(p, "join_create") /\ UNCHANGED req
    /\ UNCHANGED <<dbVars, postVars, cacheVars, ghostVars, engageVars, eventVars>>

\* Membership.objects.create: unique_together (user, community) refuses a
\* second row, and the IntegrityError ends the request.
join_create(p) ==
    /\ pc[p] = "join_create"
    /\ LET u == req[p].user
           st == IF req[p].comm.appr THEN "pending" ELSE "approved"
       IN IF membership[u] # NoRow
             THEN /\ Finish(p, "integrity_error", {})
                  /\ UNCHANGED <<dbVars, cacheVars>>
             ELSE /\ nextPk <= MaxPk
                  /\ membership' = [membership EXCEPT ![u] = Row("member", st, nextPk)]
                  /\ nextPk' = nextPk + 1
                  /\ SignalMemberCount(membership', u)
                  /\ Finish(p, IF st = "pending" THEN "requested" ELSE "joined", {})
                  /\ UNCHANGED <<name, isPrivate, requiresApproval, cUM, cUAM, cSlug>>
    /\ UNCHANGED <<postVars, ghostVars, engageVars, eventVars>>

\* ------------------------------------------------------ leave_community
LeaveBegin(p, u) ==
    /\ Begin(p, "leave_check", [NoReq EXCEPT !.op = "leave", !.user = u,
                                             !.comm = LoadedCommunity])
    /\ cSlug' = SlugAfterLoad
    /\ UNCHANGED <<dbVars, postVars, cUM, cUAM, cMS, cPCP, engageVars, eventVars>>

leave_start(p, u) == LeaveBegin(p, u) /\ UNCHANGED ghostVars

\* leave_community without its count of the admin rows
LeaveVerdictNoAdminCount(m, u) == IF m[u] = NoRow THEN "not_member" ELSE "go"

\* the precondition of leave_community: "not_member", "only_admin" or "go"
LeaveVerdict(m, u) ==
    IF m[u] = NoRow THEN "not_member"
    ELSE IF m[u].role = "admin" /\ AdminCount(m) = 1 THEN "only_admin"
    ELSE "go"

leave_check(p) ==
    /\ pc[p] = "leave_check"
    /\ LET v == LeaveVerdict(membership, req[p].user)
       IN IF v = "go"
             THEN /\ Goto(p, "leave_delete")
                  /\ req' = [req EXCEPT ![p].row = membership[req[p].user]]
             ELSE Finish(p, v, {})
    /\ UNCHANGED <<dbVars, postVars, cacheVars, ghostVars, engageVars, eventVars>>

\* a delete that reaches approved rows only
DeletedApprovedOnly(m, u, inst) ==
    IF m[u].pk = inst.pk /\ m[u].status = "approved" THEN [m EXCEPT ![u] = NoRow] ELSE m

\* DELETE by the primary key of the loaded instance: the row goes, if it is
\* still there
Deleted(m, u, inst) ==
    IF m[u].pk = inst.pk THEN [m EXCEPT ![u] = NoRow] ELSE m

\* membership.delete(); post_delete fires whether or not a row went.
leave_delete(p) ==
    /\ pc[p] = "leave_delete"
    /\ LET u == req[p].user
       IN /\ membership' = Deleted(membership, u, req[p].row)
          /\ SignalMemberCount(membership', u)
    /\ Goto(p, "leave_finish")
    /\ UNCHANGED <<name, nextPk, isPrivate, requiresApproval, postVars, cUM, cUAM, cSlug, req, ghostVars, engageVars, eventVars>>

\* the decrement of leave_community, on the instance the view had loaded
LeaveCount(db, inst) == IF inst > 0 THEN Max(0, inst - 1) ELSE db

leave_finish(p) ==
    /\ pc[p] = "leave_finish"
    /\ LET u == req[p].user
       IN /\ cMS' = [cMS EXCEPT ![u] = {}]
          /\ cPCP' = [cPCP EXCEPT ![u] = {}]
          /\ cUM' = [cUM EXCEPT ![u] = {}]
          /\ cUAM' = [cUAM EXCEPT ![u] = {}]
    /\ memberCountCache' = LeaveCount(memberCountCache, req[p].comm.mcc)
    /\ Finish(p, "left", {})
    /\ UNCHANGED <<name, membership, nextPk, isPrivate, requiresApproval, postVars, cSlug, ghostVars, engageVars, eventVars>>

\* --------------------------------------------------- Model.save(instance)
\* membership.save() of a loaded instance: UPDATE by primary key, INSERT when
\* no row has that key, and unique_together refuses the INSERT when the user
\* has another row by then.
SaveConflict(m, u, inst) == m[u] # NoRow /\ m[u].pk # inst.pk
SaveRow(m, u, inst) == IF SaveConflict(m, u, inst) THEN m ELSE [m EXCEPT ![u] = inst]

\* --------------------------------------------------- update_member_role
\* MembershipViews.update_member_role: IsCommunityAdminOrReadOnly admits the
\* caller, then the service runs.
role_start(p, caller, target, new_role) ==
    /\ is_community_admin(membership, caller)
    /\ Begin(p, "role_get", [NoReq EXCEPT !.op = "role", !.user = caller, !.tgt = target,
                                          !.arg = new_role, !.comm = LoadedCommunity])
    /\ cSlug' = SlugAfterLoad
    /\ UNCHANGED <<dbVars, postVars, cUM, cUAM, cMS, cPCP, ghostVars, engageVars, eventVars>>

\* the precondition of update_member_role
RoleVerdict(m, caller, target, new_role) ==
    IF m[target] = NoRow THEN "not_member"
    ELSE IF target = caller /\ new_role # "admin" /\ AdminCount(m) = 1 THEN "only_admin"
    ELSE "go"

role_get(p) ==
    /\ pc[p] = "role_get"
    /\ LET v == RoleVerdict(membership, req[p].user, req[p].tgt, req[p].arg)
       IN IF v = "go"
             THEN /\ Goto(p, "role_save")
                  /\ req' = [req EXCEPT ![p].row = membership[req[p].tgt]]
             ELSE Finish(p, v, {})
    /\ UNCHANGED <<dbVars, postVars, cacheVars, ghostVars, engageVars, eventVars>>

role_save(p) ==
    /\ pc[p] = "role_save"
    /\ LET u == req[p].tgt
           inst == [req[p].row EXCEPT !.role = req[p].arg]
       IN IF SaveConflict(membership, u, inst)
             THEN /\ Finish(p, "integrity_error", {})
                  /\ UNCHANGED <<name, membership, memberCountCache, cMS, cPCP>>
             ELSE /\ membership' = SaveRow(membership, u, inst)
                  /\ SignalMemberCount(membership', u)
                  /\ Finish(p, "role_updated", {})
    /\ UNCHANGED <<name, nextPk, isPrivate, requiresApproval, postVars, cUM, cUAM, cSlug, ghostVars, engageVars, eventVars>>

\* --------------------------------------------- handle_membership_request
approve_start(p, caller, target, approve) ==
    /\ is_community_admin(membership, caller)
    /\ Begin(p, "approve_get", [NoReq EXCEPT !.op = "approve", !.user = caller, !.tgt = target,
                                             !.arg = IF approve THEN "approved" ELSE "rejected",
                                             !.comm = LoadedCommunity])
    /\ cSlug' = SlugAfterLoad
    /\ UNCHANGED <<dbVars, postVars, cUM, cUAM, cMS, cPCP, ghostVars, engageVars, eventVars>>

approve_get(p) ==
    /\ pc[p] = "approve_get"
    /\ IF membership[req[p].tgt].status = "pending"
          THEN /\ Goto(p, "approve_save")
               /\ req' = [req EXCEPT ![p].row = membership[req[p].tgt]]
          ELSE Finish(p, "no_pending_request", {})
    /\ UNCHANGED <<dbVars, postVars, cacheVars, ghostVars, engageVars, eventVars>>

approve_save(p) ==
    /\ pc[p] = "approve_save"
    /\ LET u == req[p].tgt
           inst == [req[p].row EXCEPT !.status = req[p].arg]
       IN IF SaveConflict(membership, u, inst)
             THEN /\ Finish(p, "integrity_error", {})
                  /\ UNCHANGED <<name, membership, memberCountCache, cMS, cPCP>>
             ELSE /\ membership' = SaveRow(membership, u, inst)
                  /\ SignalMemberCount(membership', u)
                  /\ Finish(p, req[p].arg, {})
    /\ UNCHANGED <<name, nextPk, isPrivate, requiresApproval, postVars, cUM, cUAM, cSlug, ghostVars, engageVars, eventVars>>

\* --------------------------------------- bulk_handle_membership_requests
\* CommunityViewSet.bulk_approve: a non-empty list of user ids, approve=True
bulk_start(p, caller, ids) ==
    /\ is_community_admin(membership, caller)
    /\ ids # {}
    /\ Begin(p, "bulk_update", [NoReq EXCEPT !.op = "bulk", !.user = caller, !.ids = ids,
                                             !.comm = LoadedCommunity])
    /\ cSlug' = SlugAfterLoad
    /\ UNCHANGED <<dbVars, postVars, cUM, cUAM, cMS, cPCP, ghostVars, engageVars, eventVars>>

PendingAmong(m, ids) == {u \in ids : m[u].status = "pending"}

\* memberships.update(status='approved'): no save(), so no signal
bulk_update(p) ==
    /\ pc[p] = "bulk_update"
    /\ LET hit == PendingAmong(membership, req[p].ids)
       IN IF hit = {}
             THEN /\ Finish(p, "none_found", {})
                  /\ UNCHANGED membership
             ELSE /\ membership' = [u \in Users |-> IF u \in hit
                                       THEN [membership[u] EXCEPT !.status = "approved"]
                                       ELSE membership[u]]
                  /\ req' = [req EXCEPT ![p].n = Cardinality(hit)]
                  /\ Goto(p, "bulk_finish")
    /\ UNCHANGED <<name, nextPk, isPrivate, requiresApproval, memberCountCache, postVars, cacheVars, ghostVars, engageVars, eventVars>>

\* the counter written by bulk approval, from the instance the view had loaded
BulkCount(inst, n) == inst + n

bulk_finish(p) ==
    /\ pc[p] = "bulk_finish"
    /\ cMS' = [u \in Users |-> IF u \in req[p].ids THEN {} ELSE cMS[u]]
    /\ memberCountCache' = BulkCount(req[p].comm.mcc, req[p].n)
    /\ Finish(p, "bulk_approved", {})
    /\ UNCHANGED <<name, membership, nextPk, isPrivate, requiresApproval, postVars, cUM, cUAM, cPCP, cSlug, ghostVars, engageVars, eventVars>>

\* ---------------------------------------------------- get_post_queryset
\* list(Membership.objects.filter(user=u, status='approved')
\*          .values_list('community_id', flat=True))
MemberCommunities(m, u) == IF m[u].status = "approved" THEN {CId} ELSE {}

\* the same with role='admin'
AdminCommunities(m, u) ==
    IF m[u].status = "approved" /\ m[u].role = "admin" THEN {CId} ELSE {}

\* cache.get(key), and on a miss the computed value, which is then cached
GetOrCompute(slot, computed) == IF slot = {} THEN computed ELSE CHOOSE v \in slot : TRUE
SlotAfter(slot, computed) == IF slot = {} THEN {computed} ELSE slot

\* the double check without the branch for a membership the cached set lacks
ReconcileNoAppend(m, u, ml, al) ==
    IF ~IsApproved(m, u) /\ CId \in ml
       THEN [ml |-> ml \ {CId}, al |-> al \ {CId}, delUM |-> TRUE, delUAM |-> TRUE]
    ELSE [ml |-> ml, al |-> al, delUM |-> FALSE, delUAM |-> FALSE]

\* The double check for the community the query targets: the working lists
\* after it, and whether each cached set is deleted.
Reconcile(m, u, ml, al) ==
    IF IsApproved(m, u) /\ CId \notin ml
       THEN [ml |-> ml \cup {CId}, al |-> al, delUM |-> TRUE, delUAM |-> FALSE]
    ELSE IF ~IsApproved(m, u) /\ CId \in ml
       THEN [ml |-> ml \ {CId}, al |-> al \ {CId}, delUM |-> TRUE, delUAM |-> TRUE]
    ELSE [ml |-> ml, al |-> al, delUM |-> FALSE, delUAM |-> FALSE]

\* the three Q clauses, for the posts of the community (one per visibility)
QueryPosts(priv, ml, al) ==
    {v \in VISIBILITY_CHOICES :
        \/ (~priv /\ v = "public")
        \/ (CId \in ml /\ v \in {"public", "members"})
        \/ CId \in al}

\* the filter for a viewer who is not authenticated
AnonPosts(priv) == {v \in VISIBILITY_CHOICES : ~priv /\ v = "public"}

\* The post that carries the upvotes relation of the model.
VotedPost == "public"

\* PostViewSet.list (op "list"), and the get_object of PostViewSet.retrieve
\* and of PostViewSet.upvote (the post with visibility v), all run
\* get_post_queryset for the community of the URL.
QueryBegin(p, viewer, op, v) ==
    /\ Begin(p, IF viewer = Anon THEN "list_anon" ELSE "list_um",
             [NoReq EXCEPT !.op = op, !.user = viewer, !.arg = v])
    /\ UNCHANGED <<dbVars, postVars, cacheVars, engageVars, eventVars>>

list_start(p, viewer, op, v) ==
    /\ QueryBegin(p, viewer, op, v)
    /\ UNCHANGED ghostVars

\* what the view does with the queryset: the list, or the post looked up in
\* it, which is loaded with its counter as the row holds it
AfterQuery(p, posts) ==
    IF req[p].op = "list" THEN Finish(p, "ok", posts)
    ELSE IF req[p].arg \notin posts THEN Finish(p, "not_found", {})
    ELSE IF req[p].op = "retrieve" THEN Goto(p, "retrieve_check") /\ UNCHANGED req
    ELSE /\ Goto(p, "upvote_auth")
         /\ req' = [req EXCEPT ![p].n = upvoteCountCache]

list_anon(p) ==
    /\ pc[p] = "list_anon"
    /\ AfterQuery(p, AnonPosts(isPrivate))
    /\ UNCHANGED <<dbVars, postVars, cacheVars, ghostVars, engageVars, eventVars>>

list_um(p) ==
    /\ pc[p] = "list_um"
    /\ LET u == req[p].user
           computed == MemberCommunities(membership, u)
       IN /\ req' = [req EXCEPT ![p].mlist = GetOrCompute(cUM[u], computed)]
          /\ cUM' = [cUM EXCEPT ![u] = SlotAfter(cUM[u], computed)]
    /\ Goto(p, "list_uam")
    /\ UNCHANGED <<dbVars, postVars, cUAM, cMS, cPCP, cSlug, ghostVars, engageVars, eventVars>>

list_uam(p) ==
    /\ pc[p] = "list_uam"
    /\ LET u == req[p].user
           computed == AdminCommunities(membership, u)
       IN /\ req' = [req EXCEPT ![p].alist = GetOrCompute(cUAM[u], computed)]
          /\ cUAM' = [cUAM EXCEPT ![u] = SlotAfter(cUAM[u], computed)]
    /\ Goto(p, "list_reconcile")
    /\ UNCHANGED <<dbVars, postVars, cUM, cMS, cPCP, cSlug, ghostVars, engageVars, eventVars>>

list_reconcile(p) ==
    /\ pc[p] = "list_reconcile"
    /\ LET u == req[p].user
           r == Reconcile(membership, u, req[p].mlist, req[p].alist)
       IN /\ cUM' = IF r.delUM THEN [cUM EXCEPT ![u] = {}] ELSE cUM
          /\ cUAM' = IF r.delUAM THEN [cUAM EXCEPT ![u] = {}] ELSE cUAM
          /\ AfterQuery(p, QueryPosts(isPrivate, r.ml, r.al))
    /\ cSlug' = SlugAfterLoad
    /\ UNCHANGED <<dbVars, postVars, cMS, cPCP, ghostVars, engageVars, eventVars>>

\* ------------------------------------------------- PostViewSet.retrieve
\* the visibility check of retrieve, on a freshly read Membership row
RetrieveCheck(m, priv, viewer, v) ==
    IF viewer = Anon
       THEN IF v # "public" \/ priv THEN "forbidden" ELSE "ok"
    ELSE IF ~IsApproved(m, viewer)
       THEN IF v # "public" \/ priv THEN "forbidden" ELSE "ok"
    ELSE IF m[viewer].role # "admin" /\ v = "admin" THEN "forbidden"
    ELSE "ok"

retrieve_check(p) ==
    /\ pc[p] = "retrieve_check"
    /\ Finish(p, RetrieveCheck(membership, isPrivate, req[p].user, req[p].arg), {})
    /\ UNCHANGED <<dbVars, postVars, cacheVars, ghostVars, engageVars, eventVars>>

\* --------------------------------------------------- toggle_post_upvote
\* PostViewSet.upvote: any authenticated user; get_object, then the service
UpvoteBegin(p, u) ==
    /\ u \in Users
    /\ upvoteCountCache < MaxCount
    /\ QueryBegin(p, u, "upvote", VotedPost)

upvote_start(p, u) ==
    /\ calls[u] < MaxCalls
    /\ UpvoteBegin(p, u)
    /\ calls' = [calls EXCEPT ![u] = calls[u] + 1]
    /\ UNCHANGED pair

\* the membership check, from the cached flag or else from the rows (the
\* flag is then cached), and the creator check
upvote_auth(p) ==
    /\ pc[p] = "upvote_auth"
    /\ LET u == req[p].user
           computed == Flag(IsApproved(membership, u))
           is_member == GetOrCompute(cMS[u], computed)
       IN /\ cMS' = [cMS EXCEPT ![u] = SlotAfter(cMS[u], computed)]
          /\ IF Truthy(is_member) \/ u = Creator
                THEN Goto(p, "upvote_exists") /\ UNCHANGED req
                ELSE Finish(p, "must_be_member", {})
    /\ UNCHANGED <<dbVars, postVars, cUM, cUAM, cPCP, cSlug, ghostVars, engageVars, eventVars>>

\* post.upvotes.filter(id=user.id).exists()
upvote_exists(p) ==
    /\ pc[p] = "upvote_exists"
    /\ Goto(p, IF req[p].user \in upvotes THEN "upvote_remove" ELSE "upvote_add")
    /\ UNCHANGED <<dbVars, postVars, cacheVars, req, ghostVars, engageVars, eventVars>>

\* signals.update_post_upvote_count: the counter is recounted from the relation
SignalUpvoteCount(rel) == upvoteCountCache' = Cardinality(rel)

\* post.upvotes.add(user), and the m2m_changed signal
upvote_add(p) ==
    /\ pc[p] = "upvote_add"
    /\ upvotes' = upvotes \cup {req[p].user}
    /\ SignalUpvoteCount(upvotes')
    /\ Goto(p, "upvote_save_add")
    /\ UNCHANGED <<dbVars, cacheVars, req, ghostVars, engageVars, eventVars>>

\* post.upvotes.remove(user), and the m2m_changed signal
upvote_remove(p) ==
    /\ pc[p] = "upvote_remove"
    /\ upvotes' = upvotes \ {req[p].user}
    /\ SignalUpvoteCount(upvotes')
    /\ Goto(p, "upvote_save_remove")
    /\ UNCHANGED <<dbVars, cacheVars, req, ghostVars, engageVars, eventVars>>

\* the counter set on the post instance if a removal left it as loaded
UpvoteCountAfterNoDecrement(added, n) == IF added THEN n + 1 ELSE n

\* the counter toggle_post_upvote sets on the post instance it was given,
\* whose counter was n when the instance was loaded
UpvoteCountAfter(added, n) == IF added THEN n + 1 ELSE Max(0, n - 1)

\* Post.save after the write: cache.delete_many of the post's three keys
PostSaveInvalidate ==
    /\ cPUC' = {}
    /\ cPCC' = {}
    /\ cPTC' = {}

\* post.save(update_fields=['upvote_count_cache'])
upvote_save(p) ==
    /\ pc[p] \in {"upvote_save_add", "upvote_save_remove"}
    /\ LET added == pc[p] = "upvote_save_add"
       IN /\ upvoteCountCache' = UpvoteCountAfter(added, req[p].n)
          /\ Finish(p, IF added THEN "upvoted" ELSE "removed", {})
    /\ PostSaveInvalidate
    /\ UNCHANGED <<dbVars, upvotes, cacheVars, ghostVars, commentVars, cHU, eventVars>>

\* ---------------------------------- CommunityViewSet.membership_status
status_start(p, u) ==
    /\ Begin(p, "status_cache", [NoReq EXCEPT !.op = "status", !.user = u,
                                              !.comm = LoadedCommunity])
    /\ cSlug' = SlugAfterLoad
    /\ UNCHANGED <<dbVars, postVars, cUM, cUAM, cMS, cPCP, ghostVars, engageVars, eventVars>>

\* the body computed on a miss: the creator's, the row's, or the not-a-member one
StatusData(m, u) ==
    IF u = Creator THEN Shape(TRUE, "approved", "admin")
    ELSE IF m[u] # NoRow THEN Shape(TRUE, m[u].status, m[u].role)
    ELSE Shape(FALSE, "null", "null")

\* the answer to a viewer who is not authenticated, else cache.get: a value
\* that is true in Python is the response as it is
status_cache(p) ==
    /\ pc[p] = "status_cache"
    /\ LET u == req[p].user
       IN IF u = Anon
             THEN FinishData(p, "ok", Shape(FALSE, "null", "null"))
          ELSE IF cMS[u] # {} /\ Truthy(CHOOSE v \in cMS[u] : TRUE)
             THEN FinishData(p, "ok", CHOOSE v \in cMS[u] : TRUE)
          ELSE Goto(p, "status_resolve") /\ UNCHANGED req
    /\ UNCHANGED <<dbVars, postVars, cacheVars, ghostVars, engageVars, eventVars>>

status_resolve(p) ==
    /\ pc[p] = "status_resolve"
    /\ LET u == req[p].user
           data == StatusData(membership, u)
       IN /\ cMS' = [cMS EXCEPT ![u] = {data}]
          /\ FinishData(p, "ok", data)
    /\ UNCHANGED <<dbVars, postVars, cUM, cUAM, cPCP, cSlug, ghostVars, engageVars, eventVars>>

\* ------------------------------------------------------------ CacheStore
\* an entry reaches its TTL: the key of a membership-id set vanishes
ExpireVisibility ==
    /\ \/ \E u \in Users : cUM[u] # {} /\ cUM' = [cUM EXCEPT ![u] = {}] /\ UNCHANGED cUAM
       \/ \E u \in Users : cUAM[u] # {} /\ cUAM' = [cUAM EXCEPT ![u] = {}] /\ UNCHANGED cUM
    /\ UNCHANGED <<dbVars, postVars, cMS, cPCP, cSlug, pc, req, resp, ghostVars, engageVars, eventVars>>

\* the cached Community instance reaches its TTL
ExpireSlug ==
    /\ cSlug # {}
    /\ cSlug' = {}
    /\ UNCHANGED <<dbVars, postVars, cUM, cUAM, cMS, cPCP, pc, req, resp, ghostVars, engageVars, eventVars>>

\* ------------------------------------------------------------------ safe_update
\* the allow-list of update_community_with_lock, as far as the fields are modelled
AllowedFields == {"name", "is_private", "requires_approval"}

\* one entry of update_data: a field and its new value (a name or a flag);
\* fault stands for an integrity failure other than the duplicate name
UpdateData(f, nm, fl, ft) == [field |-> f, name |-> nm, flag |-> fl, fault |-> ft]

\* the committed row of the community
Record == [name |-> name, priv |-> isPrivate, appr |-> requiresApproval]

\* the part of update_community_with_lock that runs with the row lock held
LockedLabels == {"update_perm", "update_save", "update_commit"}

\* a read of the row that does not wait for the row lock
LockFreeNoWait(p) == TRUE

\* select_for_update returns only when no other transaction holds the row lock
LockFree(p) == \A q \in Procs \ {p} : pc[q] \notin LockedLabels

\* CommunityViewSet.safe_update: get_object and the permission class
update_start(p, caller, upd) ==
    /\ is_community_admin(membership, caller)
    /\ Begin(p, "update_lock", [NoReq EXCEPT !.op = "update", !.user = caller,
                                             !.arg = upd.field, !.upd = upd,
                                             !.comm = LoadedCommunity])
    /\ cSlug' = SlugAfterLoad
    /\ UNCHANGED <<dbVars, postVars, cUM, cUAM, cMS, cPCP, ghostVars, engageVars, eventVars>>

\* Community.objects.select_for_update().get(id=community_id)
update_lock(p) ==
    /\ pc[p] = "update_lock"
    /\ LockFree(p)
    /\ req' = [req EXCEPT ![p].locked = Record]
    /\ Goto(p, "update_perm")
    /\ UNCHANGED <<dbVars, postVars, cacheVars, ghostVars, engageVars, eventVars>>

\* the permission rule of the view applied under the lock
UpdatePermittedAsView(m, u) == is_community_admin(m, u)

\* the permission check under the lock: the creator, or a row with role admin
UpdatePermitted(m, u) == u = Creator \/ m[u].role = "admin"

update_perm(p) ==
    /\ pc[p] = "update_perm"
    /\ IF UpdatePermitted(membership, req[p].user)
       THEN Goto(p, "update_save") /\ UNCHANGED req
       ELSE Finish(p, "permission_denied", {})
    /\ UNCHANGED <<dbVars, postVars, cacheVars, ghostVars, engageVars, eventVars>>

\* the setattr loop over update_data
Assigned(r, upd) ==
    IF upd.field \notin AllowedFields THEN r
    ELSE IF upd.field = "name" THEN [r EXCEPT !.name = upd.name]
    ELSE IF upd.field = "is_private" THEN [r EXCEPT !.priv = upd.flag]
    ELSE [r EXCEPT !.appr = upd.flag]

\* the UPDATE of community.save(): the unique name, or another integrity failure
SaveOutcome(r, upd) ==
    IF r.name = OtherName THEN "conflict"
    ELSE IF upd.fault THEN "db_error"
    ELSE "saved"

\* community.save() inside the transaction: Community.save deletes the slug
\* key, writes the row (not yet committed), the post_save signal and the
\* service delete the slug key again; an IntegrityError ends the call and the
\* transaction rolls back
update_save(p) ==
    /\ pc[p] = "update_save"
    /\ LET inst == Assigned(req[p].locked, req[p].upd)
           outcome == SaveOutcome(inst, req[p].upd)
       IN /\ cSlug' = {}
          /\ IF outcome = "saved"
             THEN /\ req' = [req EXCEPT ![p].locked = inst]
                  /\ Goto(p, "update_commit")
             ELSE Finish(p, outcome, {})
    /\ UNCHANGED <<dbVars, postVars, cUM, cUAM, cMS, cPCP, ghostVars, engageVars, eventVars>>

\* the transaction.atomic block exits: the written row is committed
update_commit(p) ==
    /\ pc[p] = "update_commit"
    /\ name' = req[p].locked.name
    /\ isPrivate' = req[p].locked.priv
    /\ requiresApproval' = req[p].locked.appr
    /\ Finish(p, "updated", {})
    /\ UNCHANGED <<membership, nextPk, memberCountCache, postVars, cacheVars, ghostVars, engageVars, eventVars>>

\* ------------------------------------------------- validate_post_creation
\* the string "denied" under "post_creation_permission:{c}:{u}", next to the
\* Membership instances cached there
Denied == [role |-> "denied", status |-> "none", pk |-> 0]

\* PostViewSet.perform_create: the community by its slug, through the cache
post_start(p, u) ==
    /\ Begin(p, "post_validate", [NoReq EXCEPT !.op = "post", !.user = u,
                                               !.comm = LoadedCommunity])
    /\ cSlug' = SlugAfterLoad
    /\ UNCHANGED <<dbVars, postVars, cUM, cUAM, cMS, cPCP, ghostVars, engageVars, eventVars>>

\* validate_post_creation, the cached verdict: every cached value is truthy
post_validate(p) ==
    /\ pc[p] = "post_validate"
    /\ LET u == req[p].user
       IN IF cPCP[u] # {}
             THEN Finish(p, IF cPCP[u] = {Denied} THEN "denied" ELSE "posted", {})
             ELSE Goto(p, "post_resolve") /\ UNCHANGED req
    /\ UNCHANGED <<dbVars, postVars, cacheVars, ghostVars, engageVars, eventVars>>

\* validate_post_creation on a miss: get_or_create of an approved admin row for
\* the creator (post_save fires on a create, then the row is cached), the
\* approved row of another user, or the cached denial
post_resolve(p) ==
    /\ pc[p] = "post_resolve"
    /\ LET u == req[p].user
       IN IF u = Creator /\ membership[u] = NoRow
             THEN /\ nextPk <= MaxPkPost
                  /\ membership' = [membership EXCEPT ![u] = Row("admin", "approved", nextPk)]
                  /\ nextPk' = nextPk + 1
                  /\ memberCountCache' = ApprovedCount(membership')
                  /\ cMS' = [cMS EXCEPT ![u] = {}]
                  /\ cPCP' = [cPCP EXCEPT ![u] = {membership'[u]}]
                  /\ Finish(p, "posted", {})
             ELSE /\ UNCHANGED <<membership, nextPk, memberCountCache, cMS>>
                  /\ IF u = Creator \/ membership[u].status = "approved"
                        THEN /\ cPCP' = [cPCP EXCEPT ![u] = {membership[u]}]
                             /\ Finish(p, "posted", {})
                        ELSE /\ cPCP' = [cPCP EXCEPT ![u] = {Denied}]
                             /\ Finish(p, "denied", {})
    /\ UNCHANGED <<name, isPrivate, requiresApproval, postVars, cUM, cUAM, cSlug, ghostVars, engageVars, eventVars>>

\* --------------------------------------------- CommentViewSet.perform_create
\* a Comment row; parent 0 is no parent
Comment(i, post, parent) == [id |-> i, post |-> post, parent |-> parent]

\* signals.update_post_comment_count: the counter is recounted from the rows
CommentCount(cs, post) == Cardinality({c \in cs : c.post = post})

\* the request names the post (by its visibility) and, for a reply, the parent
comment_start(p, u, post, parent) ==
    /\ u \in Users
    /\ Cardinality(comments) < MaxComments
    /\ Begin(p, "comment_validate", [NoReq EXCEPT !.op = "comment", !.user = u,
                                                  !.arg = post, !.n = parent])
    /\ UNCHANGED <<dbVars, postVars, cacheVars, ghostVars, engageVars, eventVars>>

\* validate_comment_creation: an approved member or the creator, and for a
\* reply the parent is looked up among the comments of the same post
comment_validate(p) ==
    /\ pc[p] = "comment_validate"
    /\ LET u == req[p].user
       IN IF ~(IsApproved(membership, u) \/ u = Creator)
             THEN Finish(p, "must_be_member", {})
          ELSE IF req[p].n # 0
                  /\ ~\E c \in comments : c.id = req[p].n /\ c.post = req[p].arg
             THEN Finish(p, "not_found", {})
          ELSE Goto(p, "comment_create") /\ UNCHANGED req
    /\ UNCHANGED <<dbVars, postVars, cacheVars, ghostVars, engageVars, eventVars>>

\* serializer.save(author, post, parent): the row is inserted and post_save
\* recounts the post's comments
comment_create(p) ==
    /\ pc[p] = "comment_create"
    /\ Cardinality(comments) < MaxComments
    /\ comments' = comments \cup {Comment(Cardinality(comments) + 1, req[p].arg, req[p].n)}
    /\ commentCountCache' =
          [commentCountCache EXCEPT ![req[p].arg] = CommentCount(comments', req[p].arg)]
    /\ Finish(p, "commented", {})
    /\ UNCHANGED <<dbVars, postVars, cacheVars, ghostVars, postCacheVars, cHU, eventVars>>

\* ------------------------------------------------------------ JoinEventView
\* The event is open: not canceled, not private, without a participant limit.

\* an INSERT that unique_together (event, user) never refuses
UniqueRefusesNever(rows) == FALSE

\* unique_together (event, user): the INSERT is refused when the user has a row
UniqueRefuses(rows) == rows # {}

event_join_start(p, u) ==
    /\ u \in Users
    /\ Begin(p, "event_validate", [NoReq EXCEPT !.op = "event_join", !.user = u])
    /\ UNCHANGED <<dbVars, postVars, cacheVars, ghostVars, engageVars, eventVars>>

\* JoinEventSerializer.validate: the participation is looked up
event_validate(p) ==
    /\ pc[p] = "event_validate"
    /\ IF participants[req[p].user] # {}
          THEN Finish(p, "already_joined", {})
          ELSE Goto(p, "event_create") /\ UNCHANGED req
    /\ UNCHANGED <<dbVars, postVars, cacheVars, ghostVars, engageVars, eventVars>>

\* JoinEventSerializer.create: EventParticipant.objects.create
event_create(p) ==
    /\ pc[p] = "event_create"
    /\ LET u == req[p].user
       IN IF UniqueRefuses(participants[u])
             THEN /\ Finish(p, "integrity_error", {})
                  /\ UNCHANGED eventVars
             ELSE /\ nextEventPk <= MaxEventPk
                  /\ participants' = [participants EXCEPT ![u] = participants[u] \cup {nextEventPk}]
                  /\ nextEventPk' = nextEventPk + 1
                  /\ Finish(p, "joined_event", {})
    /\ UNCHANGED <<dbVars, postVars, cacheVars, ghostVars, engageVars>>

\* LeaveEventView: the participation is loaded with filter(...).first()
event_leave_start(p, u) ==
    /\ u \in Users
    /\ Begin(p, "event_leave_get", [NoReq EXCEPT !.op = "event_leave", !.user = u])
    /\ UNCHANGED <<dbVars, postVars, cacheVars, ghostVars, engageVars, eventVars>>

event_leave_get(p) ==
    /\ pc[p] = "event_leave_get"
    /\ LET rows == participants[req[p].user]
       IN IF rows = {}
             THEN Finish(p, "not_participant", {})
             ELSE /\ \E k \in rows :
                        /\ \A j \in rows : k <= j
                        /\ req' = [req EXCEPT ![p].n = k]
                  /\ Goto(p, "event_leave_delete")
    /\ UNCHANGED <<dbVars, postVars, cacheVars, ghostVars, engageVars, eventVars>>

\* participation.delete(): the row with the loaded primary key goes, if it is
\* still there
event_leave_delete(p) ==
    /\ pc[p] = "event_leave_delete"
    /\ participants' = [participants EXCEPT ![req[p].user] = @ \ {req[p].n}]
    /\ Finish(p, "left_event", {})
    /\ UNCHANGED <<dbVars, postVars, cacheVars, ghostVars, engageVars, nextEventPk>>

\* ------------------------------------ Post.upvote_count, Post.comment_count
\* The two counter properties of a post, read here on the post that carries
\* the votes.
COUNTERS == {"upvote_count", "comment_count"}

\* Post.upvote_count_cache / Post.comment_count_cache of the row
Persisted(c) ==
    IF c = "upvote_count" THEN upvoteCountCache ELSE commentCountCache[VotedPost]

\* "post:upvote_count:{id}" / "post:comment_count:{id}"
Entry(c) == IF c = "upvote_count" THEN cPUC ELSE cPCC

\* self.upvotes.count() / self.comments.count()
Related(c) ==
    IF c = "upvote_count" THEN Cardinality(upvotes) ELSE CommentCount(comments, VotedPost)

FieldAfterReadKept(field, inst, count) == field

\* "if count != self.<counter>_cache: Post.objects.filter(id=self.id).update(...)":
\* the row's field after the read, inst being the field of the loaded instance
FieldAfterRead(field, inst, count) == IF count # inst THEN count ELSE field

\* the post is loaded; its instance carries the persisted field
counter_start(p, c) ==
    /\ c \in COUNTERS
    /\ Begin(p, "counter_field", [NoReq EXCEPT !.op = "count", !.arg = c, !.n = Persisted(c)])
    /\ UNCHANGED <<dbVars, postVars, cacheVars, ghostVars, engageVars, eventVars>>

\* "if self.<counter>_cache > 0: return self.<counter>_cache"
counter_field(p) ==
    /\ pc[p] = "counter_field"
    /\ IF req[p].n > 0
       THEN FinishValue(p, "ok", req[p].n)
       ELSE Goto(p, "counter_cache") /\ UNCHANGED req
    /\ UNCHANGED <<dbVars, postVars, cacheVars, ghostVars, engageVars, eventVars>>

\* "cached_count = cache.get(cache_key); if cached_count is not None: return"
counter_cache(p) ==
    /\ pc[p] = "counter_cache"
    /\ IF Entry(req[p].arg) # {}
       THEN \E v \in Entry(req[p].arg) : FinishValue(p, "ok", v)
       ELSE Goto(p, "counter_relation") /\ UNCHANGED req
    /\ UNCHANGED <<dbVars, postVars, cacheVars, ghostVars, engageVars, eventVars>>

\* count the relation, cache.set(cache_key, count, 300), update the row
counter_relation(p) ==
    /\ pc[p] = "counter_relation"
    /\ LET c == req[p].arg
           count == Related(c)
           field == FieldAfterRead(Persisted(c), req[p].n, count)
       IN /\ IF c = "upvote_count"
             THEN /\ cPUC' = {count}
                  /\ upvoteCountCache' = field
                  /\ UNCHANGED <<cPCC, commentCountCache>>
             ELSE /\ cPCC' = {count}
                  /\ commentCountCache' = [commentCountCache EXCEPT ![VotedPost] = field]
                  /\ UNCHANGED <<cPUC, upvoteCountCache>>
          /\ FinishValue(p, "ok", count)
    /\ UNCHANGED <<dbVars, upvotes, cacheVars, ghostVars, comments, cPTC, cHU, eventVars>>

\* ------------------------------------------- PostSerializer.get_has_upvoted
\* the serializer field of the post that carries the votes, for the requester
has_upvoted_start(p, u) ==
    /\ u \in Users \cup {Anon}
    /\ Begin(p, "has_upvoted_cache", [NoReq EXCEPT !.op = "has_upvoted", !.user = u])
    /\ UNCHANGED <<dbVars, postVars, cacheVars, ghostVars, engageVars, eventVars>>

\* anonymous: False; "cached_result = cache.get(cache_key); if not None: return"
has_upvoted_cache(p) ==
    /\ pc[p] = "has_upvoted_cache"
    /\ IF req[p].user = Anon
       THEN Finish(p, "false", {})
       ELSE IF cHU[req[p].user] # {}
            THEN \E b \in cHU[req[p].user] : Finish(p, IF b THEN "true" ELSE "false", {})
            ELSE Goto(p, "has_upvoted_exists") /\ UNCHANGED req
    /\ UNCHANGED <<dbVars, postVars, cacheVars, ghostVars, engageVars, eventVars>>

\* "result = obj.upvotes.filter(id=user.id).exists(); cache.set(key, result, 300)"
has_upvoted_exists(p) ==
    /\ pc[p] = "has_upvoted_exists"
    /\ LET result == req[p].user \in upvotes
       IN /\ cHU' = [cHU EXCEPT ![req[p].user] = {result}]
          /\ Finish(p, IF result THEN "true" ELSE "false", {})
    /\ UNCHANGED <<dbVars, postVars, cacheVars, ghostVars, commentVars, postCacheVars,
                   eventVars>>

\* the entry of a user ends its 300 seconds
ExpireHasUpvoted(u) ==
    /\ cHU[u] # {}
    /\ cHU' = [cHU EXCEPT ![u] = {}]
    /\ UNCHANGED <<dbVars, postVars, cacheVars, pc, req, resp, ghostVars, commentVars,
                   postCacheVars, eventVars>>

\* ------------------------------------------------- CommunityViewSet.update
\* PUT/PATCH /communities/{slug}/ of ModelViewSet: get_object, the serializer
\* assigns the request's fields to the instance and saves it.  The instance
\* carries the fields of the row that are kept here: member_count_cache and
\* requires_approval.
EditFields == {"description", "requires_approval"}

\* get_object: the instance comes from "community:slug:{slug}" when it is there
edit_start(p, caller, field, flag) ==
    /\ caller \in Users
    /\ field \in EditFields
    /\ Begin(p, "edit_perm", [NoReq EXCEPT !.op = "edit", !.user = caller, !.arg = field,
                                            !.upd = [NoReq.upd EXCEPT !.flag = flag],
                                            !.comm = LoadedCommunity])
    /\ cSlug' = SlugAfterLoad
    /\ UNCHANGED <<dbVars, postVars, cUM, cUAM, cMS, cPCP, ghostVars, engageVars, eventVars>>

\* check_object_permissions: IsCommunityAdminOrReadOnly.has_object_permission
edit_perm(p) ==
    /\ pc[p] = "edit_perm"
    /\ IF is_community_admin(membership, req[p].user)
       THEN Goto(p, "edit_delete") /\ UNCHANGED req
       ELSE Finish(p, "forbidden", {})
    /\ UNCHANGED <<dbVars, postVars, cacheVars, ghostVars, engageVars, eventVars>>

\* Community.save: "cache.delete(cache_key)"
edit_delete(p) ==
    /\ pc[p] = "edit_delete"
    /\ cSlug' = {}
    /\ Goto(p, "edit_write")
    /\ UNCHANGED <<dbVars, postVars, cUM, cUAM, cMS, cPCP, req, ghostVars, engageVars, eventVars>>

\* Community.save: "super().save(*args, **kwargs)" without update_fields, an
\* UPDATE of every column of the row from the instance
edit_write(p) ==
    /\ pc[p] = "edit_write"
    /\ requiresApproval' = IF req[p].arg = "requires_approval"
                           THEN req[p].upd.flag ELSE req[p].comm.appr
    /\ memberCountCache' = req[p].comm.mcc
    /\ Finish(p, "updated", {})
    /\ UNCHANGED <<membership, nextPk, isPrivate, name, postVars, cacheVars, ghostVars,
                   engageVars, eventVars>>

\* ------------------------------------------------------------ cache outage
\* A join or leave request that arrives while the cache store is unreachable:
\* cache.get in get_object raises, no handler catches it, and the request ends
\* with the error before the service is called.
get_object_outage(p, u, op) ==
    /\ pc[p] = "idle"
    /\ resp' = [resp EXCEPT ![p] = [NoResp EXCEPT !.op = op, !.user = u,
                                                 !.out = "cache_error"]]
    /\ UNCHANGED <<dbVars, postVars, cacheVars, pc, req, ghostVars, engageVars, eventVars>>

\* Membership.objects.create when the store has become unreachable after
\* get_object: the row is inserted and the post_save handler writes the member
\* count, then its first cache deletion raises and the request ends with the
\* error; no key is deleted.
join_create_outage(p) ==
    /\ pc[p] = "join_create"
    /\ membership[req[p].user] = NoRow
    /\ nextPk <= MaxPk
    /\ LET u == req[p].user
           st == IF req[p].comm.appr THEN "pending" ELSE "approved"
       IN /\ membership' = [membership EXCEPT ![u] = Row("member", st, nextPk)]
          /\ nextPk' = nextPk + 1
          /\ memberCountCache' = ApprovedCount(membership')
    /\ Finish(p, "cache_error", {})
    /\ UNCHANGED <<name, isPrivate, requiresApproval, postVars, cacheVars, ghostVars, engageVars, eventVars>>

\* ------------------------------------------------------------------ Spec
\* the steps of the membership requests in flight
MemberStep(p) ==
    \/ join_exists(p) \/ join_create(p)
    \/ leave_check(p) \/ leave_delete(p) \/ leave_finish(p)
    \/ role_get(p) \/ role_save(p)
    \/ approve_get(p) \/ approve_save(p)

BulkStep(p) == bulk_update(p) \/ bulk_finish(p)

QueryStep(p) ==
    \/ list_anon(p) \/ list_um(p) \/ list_uam(p) \/ list_reconcile(p)
    \/ retrieve_check(p)

\* a membership request arrives at worker p
MemberStart(p) ==
    \/ \E u \in Users : join_start(p, u)
    \/ \E u \in Users : leave_start(p, u)
    \/ \E a \in Users, t \in Users, r \in ROLE_CHOICES : role_start(p, a, t, r)
    \/ \E a \in Users, t \in Users, b \in BOOLEAN : approve_start(p, a, t, b)

BulkStart(p) == \E a \in Users, ids \in SUBSET Users : bulk_start(p, a, ids)

RetrieveStart(p) ==
    \E u \in Users \cup {Anon}, v \in VISIBILITY_CHOICES : list_start(p, u, "retrieve", v)

ListStart(p) == \E u \in Users \cup {Anon} : list_start(p, u, "list", "none")

\* Membership requests, list queries and single-post fetches, served one after another:
\* every handler runs to its end before the next request arrives.
NextVisibility ==
    \/ MemberStart(1) \/ MemberStep(1)
    \/ RetrieveStart(1) \/ ListStart(1) \/ QueryStep(1)
    \/ ExpireVisibility

SpecVisibility == Init /\ [][NextVisibility]_vars

\* Membership requests, bulk approval included, served one after another.
NextMembership ==
    \/ MemberStart(1) \/ MemberStep(1)
    \/ BulkStart(1) \/ BulkStep(1)
    \/ ExpireSlug

SpecMembership == Init /\ [][NextMembership]_vars

\* no request is in flight
Quiescent == \A p \in Procs : pc[p] = "idle"

LeaveStep(p) == leave_check(p) \/ leave_delete(p) \/ leave_finish(p)

UpvoteStep(p) ==
    \/ list_um(p) \/ list_uam(p) \/ list_reconcile(p)
    \/ upvote_auth(p) \/ upvote_exists(p)
    \/ upvote_add(p) \/ upvote_remove(p) \/ upvote_save(p)

\* Leave requests served by parallel workers, in a community with one admin
\* row: the admin and the other users send leave requests at any time.
InitOneAdmin == InitJoined /\ AdminCount(membership) = 1

NextScenarioC ==
    \E p \in Procs :
        \/ \E u \in Users : leave_start(p, u)
        \/ LeaveStep(p)

SpecScenarioC == InitOneAdmin /\ [][NextScenarioC]_vars

\* List queries of the authenticated users and leave requests, served by
\* parallel workers, with the membership-id sets expiring.
NextStaleList ==
    \/ \E p \in Procs :
          \/ \E u \in Users : leave_start(p, u)
          \/ LeaveStep(p)
          \/ \E u \in Users : list_start(p, u, "list", "none")
          \/ list_um(p) \/ list_uam(p) \/ list_reconcile(p)
    \/ ExpireVisibility

SpecStaleList == InitJoined /\ [][NextStaleList]_vars

\* Scenario D, with every user of the community in the role of the ten: each
\* user sends one upvote call, the calls served in parallel; when all have
\* been served, some of the users send a second call.
InitScenarioD ==
    InitFrom([u \in Users |-> IF u = Creator THEN CreatorRow
                                             ELSE Row("member", "approved", u)], NumUsers + 1)

scenario_on(p, u) ==
    /\ calls[u] = 0
    /\ UpvoteBegin(p, u)
    /\ calls' = [calls EXCEPT ![u] = 1]
    /\ UNCHANGED pair

scenario_off(p, u) ==
    /\ calls[u] = 1
    /\ \A w \in Users : calls[w] >= 1
    /\ \A q \in Procs : pc[q] # "idle" => calls[req[q].user] = 2
    /\ QueryBegin(p, u, "upvote", VotedPost)
    /\ calls' = [calls EXCEPT ![u] = 2]
    /\ UNCHANGED pair

NextScenarioD ==
    \E p \in Procs :
        \/ \E u \in Users : scenario_on(p, u)
        \/ \E u \in Users : scenario_off(p, u)
        \/ UpvoteStep(p)

SpecScenarioD == InitScenarioD /\ [][NextScenarioD]_vars

\* Upvote calls of any user, at most MaxCalls each, served by parallel
\* workers; now and then, when no call is in flight, one client sends two
\* calls in sequence (the second when the first was served) while no other
\* call arrives.
pair_first(u) ==
    /\ Quiescent
    /\ pair = NoPair
    /\ u \notin upvotes
    /\ UpvoteBegin(1, u)
    /\ pair' = [NoPair EXCEPT !.stage = "first", !.user = u, !.rel = upvotes,
                               !.cnt = upvoteCountCache]
    /\ UNCHANGED calls

pair_second ==
    /\ Quiescent
    /\ pair.stage = "first"
    /\ QueryBegin(1, pair.user, "upvote", VotedPost)
    /\ pair' = [pair EXCEPT !.stage = "second"]
    /\ UNCHANGED calls

pair_end ==
    /\ Quiescent
    /\ pair.stage = "second"
    /\ pair' = NoPair
    /\ UNCHANGED <<dbVars, postVars, cacheVars, pc, req, resp, calls, engageVars, eventVars>>

NextUpvote ==
    \/ \E p \in Procs :
          \/ pair = NoPair /\ \E u \in Users : upvote_start(p, u)
          \/ UpvoteStep(p)
    \/ \E u \in Users : pair_first(u)
    \/ pair_second
    \/ pair_end

SpecUpvote == InitJoined /\ [][NextUpvote]_vars

\* Membership-status requests of any viewer, upvote calls and leave requests,
\* served one after another.
StatusStep(p) == status_cache(p) \/ status_resolve(p)

NextStatus ==
    \/ \E u \in Users \cup {Anon} : status_start(1, u)
    \/ StatusStep(1)
    \/ \E u \in Users : upvote_start(1, u)
    \/ UpvoteStep(1)
    \/ \E u \in Users : leave_start(1, u)
    \/ LeaveStep(1)

SpecStatus == InitJoined /\ [][NextStatus]_vars

\* the steps of the community updates in flight
UpdateStep(p) == update_lock(p) \/ update_perm(p) \/ update_save(p) \/ update_commit(p)

\* the flag edits of the creator
FlagUpdates ==
    {UpdateData(f, "none", b, FALSE) : f \in {"is_private", "requires_approval"}, b \in BOOLEAN}

\* Concurrent safe_update requests of the creator, next to requests that read
\* the community through get_object.
NextLockedUpdate ==
    \E p \in Procs :
        \/ \E upd \in FlagUpdates : update_start(p, Creator, upd)
        \/ UpdateStep(p)
        \/ status_start(p, Creator)
        \/ StatusStep(p)

SpecLockedUpdate == Init /\ [][NextLockedUpdate]_vars

\* the update_data of a call: a new name, a flag, or a field off the allow-list,
\* each with and without an integrity failure of the database
AllUpdates ==
    {UpdateData("name", nm, FALSE, ft) : nm \in Names, ft \in BOOLEAN}
        \cup {UpdateData(f, "none", b, ft) :
                 f \in {"is_private", "requires_approval"}, b \in BOOLEAN, ft \in BOOLEAN}
        \cup {UpdateData("slug", FreeName, FALSE, FALSE)}

\* safe_update requests one after another, by every user the view admits
NextUpdate ==
    \/ \E u \in Users, upd \in AllUpdates : update_start(1, u, upd)
    \/ UpdateStep(1)

SpecUpdate == InitJoined /\ [][NextUpdate]_vars

\* Join and leave requests on two workers, each with the cache store reachable,
\* unreachable from the start, or lost after get_object.
NextOutage ==
    \E p \in Procs :
        \/ \E u \in Users : join_start(p, u)
        \/ join_exists(p) \/ join_create(p)
        \/ \E u \in Users : leave_start(p, u)
        \/ LeaveStep(p)
        \/ \E u \in Users, op \in {"join", "leave"} : get_object_outage(p, u, op)
        \/ join_create_outage(p)

SpecOutage == Init /\ [][NextOutage]_vars

\* A user without a row joins and, once the join has ended, leaves.
join_then_leave_first(u) ==
    /\ Quiescent
    /\ pair = NoPair
    /\ u # Creator
    /\ membership[u] = NoRow
    /\ JoinBegin(1, u)
    /\ pair' = [NoPair EXCEPT !.stage = "first", !.user = u, !.rows = membership]
    /\ UNCHANGED calls

join_then_leave_second ==
    /\ Quiescent
    /\ pair.stage = "first"
    /\ LeaveBegin(1, pair.user)
    /\ pair' = [pair EXCEPT !.stage = "second"]
    /\ UNCHANGED calls

\* Join and leave requests one after another, among them a join followed by a
\* leave of the same user; the cached Community instance may expire.
NextJoinLeave ==
    \/ pair = NoPair /\ \E u \in Users : join_start(1, u) \/ leave_start(1, u)
    \/ join_exists(1) \/ join_create(1)
    \/ LeaveStep(1)
    \/ \E u \in Users : join_then_leave_first(u)
    \/ join_then_leave_second
    \/ pair_end
    \/ ExpireSlug

SpecJoinLeave == Init /\ [][NextJoinLeave]_vars

PostStep(p) == post_validate(p) \/ post_resolve(p)

\* Membership requests and post creations, served one after another.
NextCreatorRow ==
    \/ MemberStart(1) \/ MemberStep(1)
    \/ \E u \in Users : post_start(1, u)
    \/ PostStep(1)

SpecCreatorRow == Init /\ [][NextCreatorRow]_vars

\* no join request is in flight
NoJoin == \A p \in Procs : req[p].op # "join"

\* Concurrent safe_update requests and get_object readers; a join request
\* arrives only when no request is in flight and is served alone.
NextJoinAfterUpdate ==
    \E p \in Procs :
        \/ NoJoin /\ \E upd \in FlagUpdates : update_start(p, Creator, upd)
        \/ UpdateStep(p)
        \/ NoJoin /\ status_start(p, Creator)
        \/ StatusStep(p)
        \/ Quiescent /\ \E u \in Users : join_start(p, u)
        \/ join_exists(p) \/ join_create(p)

SpecJoinAfterUpdate == Init /\ [][NextJoinAfterUpdate]_vars

\* Membership requests, bulk approval included, and post creations, served
\* one after another.
NextPostPermission ==
    \/ MemberStart(1) \/ MemberStep(1)
    \/ BulkStart(1) \/ BulkStep(1)
    \/ \E u \in Users : post_start(1, u)
    \/ PostStep(1)

SpecPostPermission == Init /\ [][NextPostPermission]_vars

CommentStep(p) == comment_validate(p) \/ comment_create(p)

\* Comments and replies on the posts of the community, one after another.
NextComment ==
    \/ \E u \in Users, post \in VISIBILITY_CHOICES, parent \in 0..MaxComments :
          comment_start(1, u, post, parent)
    \/ CommentStep(1)

SpecComment == InitJoined /\ [][NextComment]_vars

EventStep(p) ==
    \/ event_validate(p) \/ event_create(p)
    \/ event_leave_get(p) \/ event_leave_delete(p)

\* Join and leave requests for the event, concurrently on the workers.
NextEvent ==
    \E p \in Procs :
        \/ \E u \in Users : event_join_start(p, u)
        \/ \E u \in Users : event_leave_start(p, u)
        \/ EventStep(p)

SpecEvent == Init /\ [][NextEvent]_vars

\* Votes cast by parallel requests, comments by one, and reads of the two
\* counters of the post, each read served with no other request in flight.
CounterStep(p) == counter_field(p) \/ counter_cache(p) \/ counter_relation(p)

NoCount == \A p \in Procs : req[p].op # "count"

NextCounter ==
    \/ \E p \in Procs :
          \/ NoCount /\ \E u \in Users : upvote_start(p, u)
          \/ NoCount /\ UpvoteStep(p)
    \/ Quiescent /\ \E u \in Users : comment_start(1, u, VotedPost, 0)
    \/ CommentStep(1)
    \/ Quiescent /\ \E c \in COUNTERS : counter_start(1, c)
    \/ CounterStep(1)

SpecCounter == InitJoined /\ [][NextCounter]_vars

\* One worker: votes of the users and reads of has_upvoted, one after another.
HasUpvotedStep(p) == has_upvoted_cache(p) \/ has_upvoted_exists(p)

NextHasUpvoted ==
    \/ \E u \in Users : upvote_start(1, u)
    \/ UpvoteStep(1)
    \/ \E u \in Users \cup {Anon} : has_upvoted_start(1, u)
    \/ HasUpvotedStep(1)
    \/ \E u \in Users : ExpireHasUpvoted(u)

SpecHasUpvoted == InitJoined /\ [][NextHasUpvoted]_vars

\* One worker: joins and leaves of the users and edits of the community
\* through PUT/PATCH, one after another.
EditStep(p) == edit_perm(p) \/ edit_delete(p) \/ edit_write(p)

NextEdit ==
    \/ \E u \in Users : join_start(1, u)
    \/ join_exists(1) \/ join_create(1)
    \/ \E u \in Users : leave_start(1, u)
    \/ LeaveStep(1)
    \/ \E u \in Users, f \in EditFields, b \in BOOLEAN : edit_start(1, u, f, b)
    \/ EditStep(1)
    \/ ExpireSlug

SpecEdit == Init /\ [][NextEdit]_vars

\* ================================================================ claims
\* The decision table of the Visibility Filter for viewer and a post of
\* visibility v, on the rows m.
Table(m, priv, viewer, v) ==
    IF viewer = Anon THEN ~priv /\ v = "public"
    ELSE IF viewer = Creator \/ (IsApproved(m, viewer) /\ m[viewer].role = "admin") THEN TRUE
    ELSE IF IsApproved(m, viewer) THEN v \in {"public", "members"}
    ELSE ~priv /\ v = "public"

\* C1: every list response holds exactly the posts that the decision table
\* allows the viewer, on the rows as they are when the response is given.
C1_TableMatchesBulk ==
    \A p \in Procs : resp[p].op = "list" =>
        \A v \in VISIBILITY_CHOICES :
            (v \in resp[p].posts) <=> Table(membership, isPrivate, resp[p].user, v)

\* C2: the creator is listed every post and is served every post fetched.
C2_CreatorSeesAll ==
    \A p \in Procs : resp[p].user = Creator =>
        /\ resp[p].op = "list" => resp[p].posts = VISIBILITY_CHOICES
        /\ resp[p].op = "retrieve" => resp[p].out = "ok"

\* the outcome of a single-post fetch when the viewer's cached sets are absent
RetrieveFresh(m, priv, viewer, v) ==
    LET posts == IF viewer = Anon THEN AnonPosts(priv)
                 ELSE QueryPosts(priv, MemberCommunities(m, viewer), AdminCommunities(m, viewer))
    IN IF v \in posts THEN RetrieveCheck(m, priv, viewer, v) ELSE "not_found"

\* C4: the outcome of a single-post fetch is the one decided from the rows
\* alone, whatever the viewer's cached sets held, and a members-only or
\* admin-only post is served to approved members only.
C4_RetrieveIgnoresCachedSets ==
    \A p \in Procs : resp[p].op = "retrieve" =>
        /\ resp[p].out = RetrieveFresh(membership, isPrivate, resp[p].user, resp[p].arg)
        /\ (resp[p].out = "ok" /\ resp[p].arg # "public") => IsApproved(membership, resp[p].user)

\* C5: in a private community the fetch of a members-visibility post is
\* refused to a viewer without an approved membership and served to a viewer
\* with one, whatever the viewer's cached sets hold.
C5_ScenarioA ==
    \A p \in Procs : (isPrivate /\ resp[p].op = "retrieve" /\ resp[p].arg = "members") =>
        (resp[p].out = "ok" <=> IsApproved(membership, resp[p].user))

\* the viewer was served after joining, the empty sets of the earlier refused
\* fetch still cached when the request came (the member set was deleted by
\* the double check, the admin set is still the cached empty one)
C5_Witness ==
    /\ isPrivate
    /\ resp[1] = [op |-> "retrieve", user |-> 2, arg |-> "members", out |-> "ok", posts |-> {},
                  data |-> NoData, value |-> 0]
    /\ cUM[2] = {}
    /\ cUAM[2] = {{}}

\* C6: the community keeps at least one approved admin row, whatever
\* membership requests are served.
C6_AdminNeverZero == ApprovedAdminCount(membership) >= 1

\* C8: when no membership request is in flight, the persisted member counter
\* is the number of approved Membership rows.
C8_MemberCountExact ==
    (\A p \in Procs : pc[p] = "idle") => memberCountCache = ApprovedCount(membership)

\* C3: when a list request of a viewer other than the creator reaches the
\* double check with the viewer not approved while a set it took from the
\* cache, and the cache still holds, lists the community, the response has no
\* post that the decision table denies the viewer and both cached sets of the
\* viewer are deleted.
C3_StaleEntryDetected ==
    [][\A p \in Procs :
         LET u == req[p].user
         IN (/\ pc[p] = "list_reconcile"
             /\ pc'[p] = "idle"
             /\ req[p].op = "list"
             /\ u # Creator
             /\ ~IsApproved(membership, u)
             /\ \/ (CId \in req[p].mlist /\ cUM[u] = {req[p].mlist})
                \/ (CId \in req[p].alist /\ cUAM[u] = {req[p].alist}))
            => /\ \A v \in resp'[p].posts : Table(membership', isPrivate', u, v)
               /\ cUM'[u] = {}
               /\ cUAM'[u] = {}]_vars

\* C7: the admin's row stays, it is the only admin row, and every leave
\* request of the admin is answered with the only-admin refusal, however the
\* leave requests interleave.
C7_ScenarioC ==
    /\ membership[Creator] = CreatorRow
    /\ AdminCount(membership) = 1
    /\ \A p \in Procs : (resp[p].op = "leave" /\ resp[p].user = Creator) =>
           resp[p].out = "only_admin"

\* both workers have refused a leave request of the admin
C7_Witness ==
    /\ \A p \in Procs : resp[p].op = "leave" /\ resp[p].user = Creator
                         /\ resp[p].out = "only_admin"
    /\ Quiescent

\* C9: when every user's first upvote call and the second calls sent so far
\* have been served, the relation holds the users who called once and the
\* persisted counter is their number.
C9_ScenarioD ==
    (Quiescent /\ \A u \in Users : calls[u] >= 1) =>
        /\ upvotes = {u \in Users : calls[u] = 1}
        /\ upvoteCountCache = Cardinality(upvotes)

\* C10: when the two calls in sequence of a user who had not upvoted have been
\* served, the relation and the persisted counter are what they were before
\* the first call; and the counter is never negative.
C10_ToggleRoundTrip ==
    /\ upvoteCountCache >= 0
    /\ (Quiescent /\ pair.stage = "second") =>
           (upvotes = pair.rel /\ upvoteCountCache = pair.cnt)

\* the second call of the pair removed the upvote that the first had added
C10_Witness ==
    /\ Quiescent
    /\ pair.stage = "second"
    /\ resp[1].op = "upvote" /\ resp[1].user = pair.user /\ resp[1].out = "removed"
    /\ upvotes = pair.rel

\* C11: every membership-status response to the creator is the approved
\* admin body, whatever the cache held under the key.
C11_CreatorResolve ==
    \A p \in Procs : (resp[p].op = "status" /\ resp[p].user = Creator) =>
        resp[p].data = Shape(TRUE, "approved", "admin")

\* C12: every membership-status response to a viewer who is not authenticated,
\* or who is not the creator and holds no approved row, is the not-a-member
\* body.
C12_NonMemberResolve ==
    \A p \in Procs :
        (/\ resp[p].op = "status"
         /\ resp[p].user # Creator
         /\ ~IsApproved(membership, resp[p].user)) =>
            resp[p].data = Shape(FALSE, "null", "null")

\* C13: when a join, leave, role change, approval or rejection that wrote
\* the row of a user has been served, the cache holds nothing under that
\* user's membership_status key and membership-id sets.
C13_MutationInvalidates ==
    [][\A p \in Procs :
         LET u == IF req[p].op \in {"join", "leave"} THEN req[p].user ELSE req[p].tgt
         IN (/\ req[p].op \in {"join", "leave", "role", "approve"}
             /\ pc'[p] = "idle"
             /\ resp'[p].out \in {"joined", "requested", "left", "role_updated",
                                   "approved", "rejected"})
            => (cMS'[u] = {} /\ cUM'[u] = {} /\ cUAM'[u] = {})]_vars

\* C14: when a locked community update finishes, no cached Community instance
\* written from the data before the write remains: a cached instance carries
\* the committed requires_approval.
C14_NoStaleAfterWrite ==
    [][\A p \in Procs :
          (pc[p] = "update_commit" /\ pc'[p] = "idle")
              => \A c \in cSlug' : c.appr = requiresApproval']_vars

\* C15: concurrent locked updates are serialized: at most one call is between
\* the acquisition of the row lock and its commit, and a commit writes the
\* latest committed record with the call's own edit applied, so the edit of
\* another call is never lost.
C15_Serialized ==
    [][/\ Cardinality({p \in Procs : pc'[p] \in LockedLabels}) <= 1
       /\ \A p \in Procs :
             (pc[p] = "update_commit" /\ pc'[p] = "idle")
                 => Record' = Assigned(Record, req[p].upd)]_vars

\* one call has written its edit under the lock while a second call, which
\* edits another field, waits for the lock
C15_Witness ==
    \E p, q \in Procs :
        /\ pc[p] = "update_commit"
        /\ pc[q] = "update_lock"
        /\ req[p].upd.field # req[q].upd.field
        /\ req[p].locked # Record

C17_OutageNotSurfaced ==
    \A p \in Procs : resp[p].op \in {"join", "leave"} => resp[p].out # "cache_error"

\* C18: when a user who is not the creator and has no Membership row joins
\* and then leaves, the leave succeeds and every Membership row, the user's
\* absent one included, is as it was before the join.
C18_JoinLeaveRestores ==
    (pair.stage = "second" /\ resp[1].op = "leave" /\ Quiescent)
        => (resp[1].out = "left" /\ membership = pair.rows)

\* the pair has run in a community that requires approval
C18_Witness ==
    /\ pair.stage = "second"
    /\ resp[1].op = "leave"
    /\ resp[1].out = "left"
    /\ Quiescent
    /\ requiresApproval
    /\ membership[pair.user] = NoRow
    /\ nextPk > pair.rows[Creator].pk + 1

\* C19: validating the creator's right to post creates no Membership row for
\* the creator: the creator's row is the same before and after every step of
\* the creator's post request.
C19_CreatorNeverStored ==
    [][\A p \in Procs :
          (req[p].op = "post" /\ req[p].user = Creator)
              => membership'[Creator] = membership[Creator]]_vars

\* C20: a join by a user without a row creates one row with role member whose
\* status is pending when the community requires approval and approved when
\* it does not, and touches no other row; a join by a user who has a row
\* answers that and changes no row.
C20_JoinCreatesByApproval ==
    [][\A p \in Procs :
          LET u == req[p].user
          IN /\ (pc[p] = "join_create" /\ pc'[p] = "idle"
                    /\ resp'[p].out \in {"joined", "requested"})
                   => /\ membership'[u] =
                            Row("member",
                                IF requiresApproval THEN "pending" ELSE "approved",
                                nextPk)
                      /\ \A v \in Users \ {u} : membership'[v] = membership[v]
             /\ (pc[p] = "join_exists" /\ pc'[p] # "join_exists" /\ membership[u] # NoRow)
                   => (membership' = membership /\ resp'[p].out = "already_member")]_vars

\* C25: the authorization checked under the lock of a community update
\* accepts exactly the users that is_community_admin accepts: the creator and
\* the approved admins and moderators.
C25_SameAdministrators ==
    [][\A p \in Procs :
          (pc[p] = "update_perm" /\ pc'[p] # "update_perm")
              => (pc'[p] = "update_save"
                    <=> is_community_admin(membership, req[p].user))]_vars

\* C28: the upvotes relation of a post changes only for a user who, at that
\* time, has an approved Membership row or is the creator, whatever is cached
\* under the user's membership_status key.
C28_UpvoteOnlyByMembers ==
    [][\A u \in Users :
          ((u \in upvotes) # (u \in upvotes'))
              => (IsApproved(membership, u) \/ u = Creator)]_vars

\* C29: a post creation is validated exactly when the user is the creator or
\* holds an approved Membership row at that time, and is refused otherwise.
C29_PostPermissionExact ==
    [][\A p \in Procs :
          (req[p].op = "post" /\ pc'[p] = "idle")
              => (resp'[p].out = "posted"
                    <=> (req[p].user = Creator \/ IsApproved(membership, req[p].user)))]_vars

\* C27: a list of the community's posts, served to an approved member who is
\* not the creator and whose role is not admin, holds no post with
\* visibility admin.
C27_NoAdminPostsForMembers ==
    [][\A p \in Procs :
          LET u == req[p].user
          IN (req[p].op = "list" /\ pc'[p] = "idle" /\ u \in Users \ {Creator}
                /\ IsApproved(membership, u) /\ membership[u].role # "admin")
                 => "admin" \notin resp'[p].posts]_vars

\* C21: replies are one level deep: the parent of a comment is a comment of
\* the same post that has no parent itself.
C21_OneLevelOfReplies ==
    \A c \in comments :
        c.parent # 0 =>
            \E d \in comments : d.id = c.parent /\ d.post = c.post /\ d.parent = 0

\* C22: a user joins the event at most once: there is never more than one
\* EventParticipant row per user, and a step of a join request of a user who
\* participates ends the request as failed and leaves the rows as they are.
C22_JoinEventOnce ==
    [][/\ \A u \in Users : Cardinality(participants'[u]) <= 1
       /\ \A p \in Procs :
             (req[p].op = "event_join" /\ pc'[p] # pc[p]
                 /\ participants[req[p].user] # {})
                  => /\ participants' = participants
                     /\ resp'[p].out \in {"already_joined", "integrity_error"}]_vars

\* two join requests of one user have both passed the validation; one has
\* created the row and the other is about to insert
C22_Witness ==
    \E p, q \in Procs :
        /\ p # q
        /\ pc[p] = "event_create"
        /\ req[p].user = resp[q].user
        /\ resp[q].out = "joined_event"
        /\ participants[req[p].user] # {}

C23_ToggleKeepsOtherEntries ==
    [][\A p \in Procs : req[p].op = "upvote" => UNCHANGED <<cPCC, cPTC>>]_vars

\* C30: the has_upvoted value reported for a user equals whether the user is
\* in the post's upvotes relation, also when has_upvoted was read before the
\* user's toggle.
C30_HasUpvotedMatchesRelation ==
    \A p \in Procs :
        (resp[p].op = "has_upvoted" /\ resp[p].user \in Users) =>
            ((resp[p].out = "true") <=> (resp[p].user \in upvotes))

\* C26: a save of the community for a content or settings edit leaves
\* member_count_cache as the counter paths last wrote it, also when the saved
\* instance came from the community-by-slug cache.
C26_EditKeepsMemberCount ==
    [][\A p \in Procs : req[p].op = "edit" => UNCHANGED memberCountCache]_vars

====
